---- MODULE Spec2Model ----
(***************************************************************************)
(* A model of the Jira / SonarQube fetch-and-plot scripts:                 *)
(*   src/jira/jira_fetch.py            the Jira work-log fetcher           *)
(*   src/jira/jira_plot.py             the Jira aggregation and plots      *)
(*   src/sonarqube/sonarqube_fetch.py  the SonarQube fetcher               *)
(*   src/sonarqube/sonarqube_plot.py   the SonarQube effort plots          *)
(*                                                                         *)
(* Python values are modelled as follows.  A dict is a function whose      *)
(* DOMAIN is the set of keys present; None, numbers and strings are tagged records; a str     *)
(* that the code inspects character by character is a sequence of          *)
(* one-character strings; a date is a record [y, m, d].                    *)
(***************************************************************************)
EXTENDS Integers, Sequences, FiniteSets, TLC

VARIABLES
    prog,       \* which script runs: "jira_fetch", "sonarqube_fetch", or "none"
    \* ---- jira_fetch.py
    today,      \* datetime.today() read by fetch_data_for_period
    months,     \* args.months / the months_back argument
    tracker,    \* the issues the Jira server holds, each with its assignee
    jpc,        \* position of the Jira run
    jentry,     \* how the run was entered: through main, or fetch_data_for_period itself
    ji,         \* loop variable i of fetch_data_for_period
    jt,         \* index of the tester the inner loop is at
    jwindows,   \* the (start_date, end_date) pairs computed so far, in order
    jqueried,   \* the requests issued so far, in order
    jlast,      \* outcome of the most recent request
    jfaults,    \* number of failed requests so far
    jlog,       \* logging.error lines about failed fetches
    jfiles,     \* the artifact files written by save_data_to_file
    \* ---- sonarqube_fetch.py
    spc,        \* position of the SonarQube run
    snow,       \* datetime.now() read when the script is loaded
    smonth,     \* args.month
    sfrom,      \* the module-level start_date, the "from" of the history requests
    sproj,      \* index into project_keys
    sfunc,      \* index into the three query functions
    squeried,   \* the HTTP requests issued so far, in order
    slast,      \* outcome of the most recent request
    sfaults,    \* number of failed requests so far
    slog,       \* logging.error lines
    sfiles,     \* the files written by save_json
    \* ---- extract_relevant_info called on its own
    payload,    \* the argument
    extracted,  \* the outcome: [status, records]
    \* ---- convert_effort_to_minutes called on its own
    effort_str, \* the argument
    minutes,    \* the outcome: [status, value]
    \* ---- sonarqube_plot.plot_cumulative_effort_over_time, one project
    issues_detailed, \* what load_json returns for the project
    cumulative, \* the outcome: [status, order, dates, values]
    \* ---- jira_plot.main
    ppc,        \* position
    loaded,     \* the records load_data reads from the artifacts, in order
    df,         \* the rows of the DataFrame main works on
    avg,        \* the rows of avg_time_per_issue
    charts      \* the chart functions called so far, with what they were given

jiraVars == <<today, months, tracker, jpc, jentry, ji, jt, jwindows, jqueried, jlast, jfaults, jlog, jfiles>>
sonarVars == <<spc, snow, smonth, sfrom, sproj, sfunc, squeried, slast, sfaults, slog, sfiles>>
extractVars == <<payload, extracted>>
effortVars == <<effort_str, minutes>>
cumVars == <<issues_detailed, cumulative>>
plotVars == <<ppc, loaded, df, avg, charts>>
vars == <<prog, jiraVars, sonarVars, extractVars, effortVars, cumVars, plotVars>>

\* JSON leaves are tagged, so that None, numbers and strings can be compared.
None == [t |-> "None"]
Num(n) == [t |-> "int", v |-> n]
Str(x) == [t |-> "str", s |-> x]
\* a timestamp string such as "2024-01-15T09:00:00.000+0100": local date and
\* hour, and the UTC offset in hours
Timestamp(y, m, d, h, off) == [t |-> "ts", y |-> y, m |-> m, d |-> d, h |-> h, off |-> off]
EmptyDict == <<>>

\* dict.get(key, default)
Get(d, k, default) == IF k \in DOMAIN d THEN d[k] ELSE default

RECURSIVE SumSeq(_)
SumSeq(s) == IF s = <<>> THEN 0 ELSE Head(s) + SumSeq(Tail(s))

Min(a, b) == IF a < b THEN a ELSE b

(***************************************************************************)
(* Dates: datetime, dateutil.relativedelta, strftime('%Y-%m-%d')           *)
(***************************************************************************)
FirstYear == 2024
NumYears == 1
TodayDays == {1, 15, 30, 31}

IsLeap(y) == (y % 4 = 0 /\ y % 100 # 0) \/ y % 400 = 0

DaysInMonth(y, m) ==
    IF m = 2 THEN (IF IsLeap(y) THEN 29 ELSE 28)
    ELSE IF m \in {4, 6, 9, 11} THEN 30 ELSE 31

Date(y, m, d) == [y |-> y, m |-> m, d |-> d]

\* dt - relativedelta(months=n): the month moves back n months, the day is
\* clipped to the length of the month reached.
SubMonths(dt, n) ==
    LET total == dt.y * 12 + (dt.m - 1) - n
        y2 == total \div 12
        m2 == (total % 12) + 1
    IN Date(y2, m2, Min(dt.d, DaysInMonth(y2, m2)))

\* dt - timedelta(days=1)
PrevDay(dt) ==
    IF dt.d > 1 THEN Date(dt.y, dt.m, dt.d - 1)
    ELSE IF dt.m > 1 THEN Date(dt.y, dt.m - 1, DaysInMonth(dt.y, dt.m - 1))
    ELSE Date(dt.y - 1, 12, 31)

\* dt + timedelta(days=1)
NextDay(dt) ==
    IF dt.d < DaysInMonth(dt.y, dt.m) THEN Date(dt.y, dt.m, dt.d + 1)
    ELSE IF dt.m < 12 THEN Date(dt.y, dt.m + 1, 1)
    ELSE Date(dt.y + 1, 1, 1)

\* dt - relativedelta(months=n, days=k) for k = 1: relativedelta applies the
\* months first and the days after.
SubMonthsAndDay(dt, n) == PrevDay(SubMonths(dt, n))

\* dt.replace(day=1)
ReplaceDay1(dt) == Date(dt.y, dt.m, 1)

\* date.toordinal(): the days from 0001-01-01, that day being 1
DaysBeforeYear(y) == 365 * (y - 1) + ((y - 1) \div 4) - ((y - 1) \div 100) + ((y - 1) \div 400)

RECURSIVE DaysBeforeMonth(_, _)
DaysBeforeMonth(y, m) ==
    IF m = 1 THEN 0 ELSE DaysBeforeMonth(y, m - 1) + DaysInMonth(y, m - 1)

Ordinal(dt) == DaysBeforeYear(dt.y) + DaysBeforeMonth(dt.y, dt.m) + dt.d

\* the instant of a timestamp, in hours: what aware datetimes are ordered by
Instant(ts) == Ordinal(Date(ts.y, ts.m, ts.d)) * 24 + ts.h - ts.off

\* the UTC calendar date of a timestamp (offsets are within a day)
UtcDate(ts) ==
    LET local == Date(ts.y, ts.m, ts.d)
        hour == ts.h - ts.off
    IN  IF hour < 0 THEN PrevDay(local) ELSE IF hour >= 24 THEN NextDay(local) ELSE local

\* strftime('%Y-%m-%d'): zero-padded year, month, day; on four-digit years the
\* order of the strings is the order of the triples.
Strftime(dt) == <<dt.y, dt.m, dt.d>>

\* s < t on two dates formatted %Y-%m-%d (the order of the strings)
DateLess(s, t) ==
    \/ s[1] < t[1]
    \/ s[1] = t[1] /\ s[2] < t[2]
    \/ s[1] = t[1] /\ s[2] = t[2] /\ s[3] < t[3]

\* start_date of offset i (jira_fetch.py line 100)
start_date(td, i) == Strftime(ReplaceDay1(SubMonths(td, i)))

\* end_date of offset i (jira_fetch.py line 101)
end_date(td, i) ==
    IF i # 0 THEN Strftime(SubMonthsAndDay(td, i - 1)) ELSE Strftime(td)

Todays ==
    { Date(y, m, d) : y \in FirstYear .. (FirstYear + NumYears - 1), m \in 1..12, d \in TodayDays }

ValidTodays == { t \in Todays : t.d <= DaysInMonth(t.y, t.m) }

(***************************************************************************)
(* jira_fetch.extract_relevant_info                                        *)
(***************************************************************************)
MaxIssues == 2
MaxWorklogs == 2

\* the dict built at lines 52-60 for one work-log entry
WorklogInfo(issue, worklog) ==
    [ user_name |-> Get(Get(worklog, "author", EmptyDict), "displayName", None),
      user_email |-> Get(Get(worklog, "author", EmptyDict), "emailAddress", None),
      issue_key |-> Get(issue, "key", None),
      issue_id |-> Get(issue, "id", None),
      worklog_id |-> Get(worklog, "id", None),
      time_spent_seconds |-> Get(worklog, "timeSpentSeconds", None),
      worklog_start |-> Get(worklog, "started", None) ]

\* the argument of info.update at lines 64-68
TimetrackingUpdate(timetracking) ==
    [ original_estimate_seconds |-> Get(timetracking, "originalEstimateSeconds", None),
      remaining_estimate_seconds |-> Get(timetracking, "remainingEstimateSeconds", None),
      time_spent_seconds |-> Get(timetracking, "timeSpentSeconds", None) ]

\* dict.update: the keys of upd overwrite or extend those of d
DictUpdate(d, upd) == upd @@ d

IssueWorklogs(issue) ==
    Get(Get(Get(issue, "fields", EmptyDict), "worklog", EmptyDict), "worklogs", <<>>)

IssueTimetracking(issue) ==
    Get(Get(issue, "fields", EmptyDict), "timetracking", EmptyDict)

\* One iteration of the loop over the issues (lines 50-68).  `info` is the
\* dict most recently appended to relevant_info by any iteration; it is
\* unbound while relevant_info is empty, and the update then raises
\* UnboundLocalError.
ExtractIssue(acc, issue) ==
    IF acc.status = "raised" THEN acc
    ELSE
        LET worklogs == IssueWorklogs(issue)
            appended == acc.records \o
                [j \in 1..Len(worklogs) |-> WorklogInfo(issue, worklogs[j])]
            timetracking == IssueTimetracking(issue)
            n == Len(appended)
        IN  IF DOMAIN timetracking = {} THEN [status |-> "returned", records |-> appended]
            ELSE IF n = 0 THEN [status |-> "raised", records |-> appended]
            ELSE [status |-> "returned",
                  records |-> [appended EXCEPT ![n] =
                                 DictUpdate(@, TimetrackingUpdate(timetracking))]]

RECURSIVE ExtractIssues(_, _)
ExtractIssues(acc, iss) ==
    IF iss = <<>> THEN acc
    ELSE ExtractIssues(ExtractIssue(acc, Head(iss)), Tail(iss))

\* extract_relevant_info(data): [status, records], status "returned" or
\* "raised" (an exception left the function)
extract_relevant_info(data) ==
    ExtractIssues([status |-> "returned", records |-> <<>>], Get(data, "issues", <<>>))

\* ---- the payloads the function is applied to
Author == [displayName |-> Str("Alice Martin"), emailAddress |-> Str("alice.martin@ubp.ch")]

\* the j-th work-log entry of the i-th issue, with or without its fields
WorklogChoices(i, j) ==
    { [id |-> Num(10 * i + j), timeSpentSeconds |-> Num(600 * j),
       started |-> Timestamp(2024, 1, 15, 9, 1), author |-> Author],
      EmptyDict }

WorklogLists(i) ==
    UNION { { w \in [1..n -> UNION { WorklogChoices(i, j) : j \in 1..n }] :
                \A j \in 1..n : w[j] \in WorklogChoices(i, j) } : n \in 0..MaxWorklogs }

WorklogFieldChoices(i) ==
    { EmptyDict, [worklog |-> EmptyDict] }
        \cup { [worklog |-> [worklogs |-> w]] : w \in WorklogLists(i) }

TimetrackingFieldChoices(i) ==
    { EmptyDict,
      [timetracking |-> EmptyDict],
      [timetracking |-> [originalEstimateSeconds |-> Num(7200 * i)]],
      [timetracking |-> [originalEstimateSeconds |-> Num(7200 * i),
                         remainingEstimateSeconds |-> Num(1800 * i),
                         timeSpentSeconds |-> Num(5400 * i)]] }

FieldsChoices(i) ==
    { w @@ tt : w \in WorklogFieldChoices(i), tt \in TimetrackingFieldChoices(i) }

IssueKeys == <<"K-1", "K-2", "K-3", "K-4">>
IssueKey(i) == Str(IssueKeys[i])

IssueChoices(i) ==
    { EmptyDict, [key |-> IssueKey(i), id |-> Num(1000 + i)] }
        \cup { [key |-> IssueKey(i), id |-> Num(1000 + i), fields |-> f] : f \in FieldsChoices(i) }

IssueLists ==
    UNION { { iss \in [1..n -> UNION { IssueChoices(i) : i \in 1..n }] :
                \A i \in 1..n : iss[i] \in IssueChoices(i) } : n \in 0..MaxIssues }

Payloads == { EmptyDict } \cup { [issues |-> iss] : iss \in IssueLists }

(***************************************************************************)
(* The HTTP requests of the two fetchers                                   *)
(***************************************************************************)
\* What requests.get can do: answer 200, answer 401 or 500, or raise
\* requests.exceptions.ConnectionError or requests.exceptions.Timeout.
Failures == {"unauthorized", "server_error", "transport_failure", "timeout"}
Outcomes == {"ok"} \cup Failures

\* the outcomes in which requests.get itself raises
GetRaises(outcome) == outcome \in {"transport_failure", "timeout"}

\* response.status_code
StatusCode(outcome) ==
    IF outcome = "ok" THEN 200 ELSE IF outcome = "unauthorized" THEN 401 ELSE 500

\* the most failed requests injected into one run
MaxFaults == 2

(***************************************************************************)
(* jira_fetch.py: main, fetch_data_for_period,                             *)
(* fetch_and_process_issues_for_tester, save_data_to_file                  *)
(***************************************************************************)
NumTesters == 2
MaxMonths == 2

MonthsInputs == (0 - 1) .. MaxMonths

\* the search results a 200 answer can carry
PayloadNoIssues == [issues |-> <<>>]
PayloadOneWorklog ==
    [issues |-> << [key |-> IssueKey(1), id |-> Num(1001),
                    fields |-> [worklog |-> [worklogs |-> <<
                        [id |-> Num(11), timeSpentSeconds |-> Num(600),
                         started |-> Timestamp(2024, 1, 15, 9, 1),
                         author |-> Author] >>]]] >>]
PayloadEstimateOnly ==
    [issues |-> << [key |-> IssueKey(1), id |-> Num(1001),
                    fields |-> [timetracking |-> [originalEstimateSeconds |-> Num(7200)]]] >>]
JiraPayloads == {PayloadNoIssues, PayloadOneWorklog, PayloadEstimateOnly}

\* save_data_to_file: the file of that folder and name is (over)written
save_data_to_file(files, trigram, end, data) ==
    { f \in files : ~(f.trigram = trigram /\ f.end = end) }
        \cup { [trigram |-> trigram, end |-> end, data |-> data] }

\* fetch_and_process_issues_for_tester(tester, start_date, end_date) when the
\* request ends as `outcome` and a 200 answer carries `body`:
\* [status, files, log], status "returned" or "raised".
fetch_and_process_issues_for_tester(files, log, tester, start, end, outcome, body) ==
    IF GetRaises(outcome) THEN [status |-> "raised", files |-> files, log |-> log]
    ELSE IF StatusCode(outcome) = 200 THEN
        LET extracted_info == extract_relevant_info(body)
        IN  IF extracted_info.status = "raised"
            THEN [status |-> "raised", files |-> files, log |-> log]
            ELSE IF extracted_info.records # <<>>
            THEN [status |-> "returned",
                  files |-> save_data_to_file(files, tester, end, extracted_info.records),
                  log |-> log]
            ELSE [status |-> "returned", files |-> files, log |-> log]
    ELSE [status |-> "returned", files |-> files,
          log |-> log \cup {[tester |-> tester, end |-> end, code |-> StatusCode(outcome)]}]

\* main (lines 105-125): the --months argument is validated, then the period
\* is fetched
JiraMain ==
    /\ prog = "jira_fetch" /\ jpc = "start"
    /\ IF months < 1
       THEN jpc' = "rejected" /\ UNCHANGED ji
       ELSE jpc' = "window" /\ ji' = months
    /\ jentry' = "main"
    /\ UNCHANGED <<prog, today, months, tracker, jt, jwindows, jqueried, jlast, jfaults, jlog, jfiles>>
    /\ UNCHANGED <<sonarVars, extractVars, effortVars, cumVars, plotVars>>

\* fetch_data_for_period(months_back, testers) called directly
CallFetchDataForPeriod ==
    /\ prog = "jira_fetch" /\ jpc = "start"
    /\ jpc' = "window" /\ ji' = months
    /\ jentry' = "fetch_data_for_period"
    /\ UNCHANGED <<prog, today, months, tracker, jt, jwindows, jqueried, jlast, jfaults, jlog, jfiles>>
    /\ UNCHANGED <<sonarVars, extractVars, effortVars, cumVars, plotVars>>

\* one step of `for i in range(months_back, -1, -1)`: lines 99-101
NextWindow ==
    /\ prog = "jira_fetch" /\ jpc = "window"
    /\ IF ji < 0
       THEN jpc' = "done" /\ UNCHANGED <<jwindows, jt>>
       ELSE /\ jwindows' = Append(jwindows,
                    [start |-> start_date(today, ji), end |-> end_date(today, ji)])
            /\ jt' = 1
            /\ jpc' = "tester"
    /\ UNCHANGED <<prog, today, months, tracker, jentry, ji, jqueried, jlast, jfaults, jlog, jfiles>>
    /\ UNCHANGED <<sonarVars, extractVars, effortVars, cumVars, plotVars>>

\* one step of `for tester in testers` (line 103), the server answering a
\* successful request with one of `bodies`
FetchForTesterGiven(bodies) ==
    /\ prog = "jira_fetch" /\ jpc = "tester"
    /\ \E outcome \in Outcomes :
       \* only a 200 answer has a body that is read
       \E body \in (IF outcome \in Failures THEN {PayloadNoIssues} ELSE bodies) :
         LET w == jwindows[Len(jwindows)]
             r == fetch_and_process_issues_for_tester(
                      jfiles, jlog, jt, w.start, w.end, outcome, body)
         IN  /\ outcome \in Failures => jfaults < MaxFaults
             /\ jqueried' = Append(jqueried, [tester |-> jt, start |-> w.start, end |-> w.end])
             /\ jlast' = outcome
             /\ jfaults' = IF outcome \in Failures THEN jfaults + 1 ELSE jfaults
             /\ jfiles' = r.files
             /\ jlog' = r.log
             /\ IF r.status = "raised"
                THEN jpc' = "aborted" /\ UNCHANGED <<ji, jt>>
                ELSE IF jt < NumTesters
                THEN jpc' = "tester" /\ jt' = jt + 1 /\ UNCHANGED ji
                ELSE jpc' = "window" /\ ji' = ji - 1 /\ UNCHANGED jt
    /\ UNCHANGED <<prog, today, months, tracker, jentry, jwindows>>
    /\ UNCHANGED <<sonarVars, extractVars, effortVars, cumVars, plotVars>>

\* the request answered with any of the search results
FetchForTester == FetchForTesterGiven(JiraPayloads)

\* ---- the request answered from the issues the server holds
\* a work-log entry started at 09:00 UTC of a date
TrackedWorklog(id, date) ==
    [id |-> Num(id), timeSpentSeconds |-> Num(3600),
     started |-> Timestamp(date.y, date.m, date.d, 9, 0), author |-> Author]

TrackedIssue(assignee, i, worklogs) ==
    [assignee |-> assignee,
     issue |-> [key |-> IssueKey(i), id |-> Num(1000 + i),
                fields |-> [worklog |-> [worklogs |-> worklogs]]]]

\* what the server may hold on the day td: nothing; an issue worked on on
\* the first day of the current month; an issue worked on on the first day
\* of the previous month and again today; two issues of two testers
Trackers(td) ==
    LET first == ReplaceDay1(td)
        prevFirst == ReplaceDay1(SubMonths(td, 1))
    IN  { <<>>,
          << TrackedIssue(1, 1, << TrackedWorklog(11, first) >>) >>,
          << TrackedIssue(1, 1, << TrackedWorklog(11, prevFirst), TrackedWorklog(12, td) >>) >>,
          << TrackedIssue(1, 1, << TrackedWorklog(11, prevFirst) >>),
             TrackedIssue(2, 2, << TrackedWorklog(21, td) >>) >> }

\* the date of a work-log entry, as worklogDate compares it
WorklogDate(worklog) == <<worklog.started.y, worklog.started.m, worklog.started.d>>

\* the JQL of line 81: assignee = tester AND worklogDate >= start AND
\* worklogDate <= end selects the ISSUES of the assignee that have a
\* work-log entry in the window
MatchesJql(entry, tester, start, end) ==
    /\ entry.assignee = tester
    /\ \E k \in 1..Len(IssueWorklogs(entry.issue)) :
          LET d == WorklogDate(IssueWorklogs(entry.issue)[k])
          IN  ~DateLess(d, start) /\ ~DateLess(end, d)

RECURSIVE SelectIssues(_, _, _, _)
SelectIssues(entries, tester, start, end) ==
    IF entries = <<>> THEN <<>>
    ELSE (IF MatchesJql(Head(entries), tester, start, end)
          THEN << Head(entries).issue >> ELSE <<>>)
         \o SelectIssues(Tail(entries), tester, start, end)

\* the search results: each selected issue with the fields asked for at line
\* 82 ("timetracking,worklog"), the worklog field holding the work-log
\* entries of the issue
JiraSearch(entries, tester, start, end) ==
    [issues |-> SelectIssues(entries, tester, start, end)]

\* one step of `for tester in testers` (line 103), the server answering from
\* the issues it holds
FetchFromTracker ==
    LET w == jwindows[Len(jwindows)]
    IN  FetchForTesterGiven({ JiraSearch(tracker, jt, w.start, w.end) })

(***************************************************************************)
(* sonarqube_fetch.py: main, fetch_and_save_project_data and the three     *)
(* query functions                                                         *)
(***************************************************************************)
NumProjects == 6
NumMetrics == 6
QueryFuncs == <<"fetch_metrics_for_project", "fetch_metrics_history", "fetch_issues_detailed">>

\* save_json(data, f"{project_key}_{func.__name__}")
save_json(files, project, func, data) ==
    { f \in files : ~(f.project = project /\ f.func = func) }
        \cup { [project |-> project, func |-> func, data |-> data] }

\* fetch_metrics_for_project and fetch_issues_detailed: one request inside
\* try/except RequestException; [data, log], data None after a failure
\* (the JSON object of a 200 answer is written {0}, and None is {})
fetch_single(log, project, func, outcome) ==
    IF outcome = "ok"
    THEN [data |-> {0}, truthy |-> TRUE, log |-> log]
    ELSE [data |-> {}, truthy |-> FALSE,
          log |-> log \cup {[project |-> project, func |-> func, metric |-> 0, line |-> "request"]}]

\* fetch_metrics_history: one request per metric, each inside its own
\* try/except; the dict returned holds the history of the metrics whose
\* request succeeded.  `failed` are the metrics whose request fails.
fetch_metrics_history(log, project, failed) ==
    [data |-> { m \in 1..NumMetrics : m \notin failed },
     truthy |-> TRUE,
     log |-> log \cup { [project |-> project, func |-> QueryFuncs[2], metric |-> m,
                         line |-> "request"] : m \in failed }]

\* lines 51-54 of fetch_and_save_project_data
SaveOrLog(files, log, project, func, data, truthy) ==
    IF truthy
    THEN [files |-> save_json(files, project, func, data), log |-> log]
    ELSE [files |-> files,
          log |-> log \cup {[project |-> project, func |-> func, metric |-> 0, line |-> "failed"]}]

SonarAdvance ==
    IF sfunc < Len(QueryFuncs) THEN sfunc' = sfunc + 1 /\ UNCHANGED <<sproj, spc>>
    ELSE IF sproj < NumProjects THEN sfunc' = 1 /\ sproj' = sproj + 1 /\ UNCHANGED spc
    ELSE spc' = "done" /\ UNCHANGED <<sproj, sfunc>>

\* the values --month is given in a run (line 17: any int is accepted)
SonarMonthInputs == (0 - 1) .. MaxMonths

\* the dates the script is started on
SonarNows == {Date(FirstYear, 1, 15), Date(FirstYear, 3, 1)}

\* dt - timedelta(days=n), n of either sign, a month at a time
RECURSIVE SubDays(_, _)
SubDays(dt, n) ==
    IF n >= 0
    THEN IF dt.d > n THEN Date(dt.y, dt.m, dt.d - n)
         ELSE SubDays(PrevDay(Date(dt.y, dt.m, 1)), n - dt.d)
    ELSE LET left == DaysInMonth(dt.y, dt.m) - dt.d
         IN  IF 0 - n <= left THEN Date(dt.y, dt.m, dt.d - n)
             ELSE SubDays(NextDay(Date(dt.y, dt.m, dt.d + left)), n + left + 1)

\* line 38: start_date = (datetime.now() - timedelta(days=30*args.month)).strftime(...)
sonar_start_date(now, month) == Strftime(SubDays(now, 30 * month))

\* the module-level statements (lines 15-39) run when the script is loaded:
\* the arguments are parsed and start_date is computed; args.month is not
\* examined any further
SonarLoad ==
    /\ prog = "sonarqube_fetch" /\ spc = "start"
    /\ sfrom' = sonar_start_date(snow, smonth)
    /\ spc' = "main"
    /\ UNCHANGED <<prog, snow, smonth, sproj, sfunc, squeried, slast, sfaults, slog, sfiles>>
    /\ UNCHANGED <<jiraVars, extractVars, effortVars, cumVars, plotVars>>

\* main: lines 91-95
SonarMain ==
    /\ prog = "sonarqube_fetch" /\ spc = "main"
    /\ spc' = "loop"
    /\ UNCHANGED <<prog, snow, smonth, sfrom, sproj, sfunc, squeried, slast, sfaults, slog, sfiles>>
    /\ UNCHANGED <<jiraVars, extractVars, effortVars, cumVars, plotVars>>

\* one step of the loop of fetch_and_save_project_data, func one of the two
\* single-request functions
FetchAndSaveSingle ==
    /\ prog = "sonarqube_fetch" /\ spc = "loop" /\ sfunc \in {1, 3}
    /\ \E outcome \in Outcomes :
         LET func == QueryFuncs[sfunc]
             r == fetch_single(slog, sproj, func, outcome)
             s == SaveOrLog(sfiles, r.log, sproj, func, r.data, r.truthy)
         IN  /\ outcome \in Failures => sfaults < MaxFaults
             /\ squeried' = Append(squeried, [project |-> sproj, func |-> func, metric |-> 0])
             /\ slast' = outcome
             /\ sfaults' = IF outcome \in Failures THEN sfaults + 1 ELSE sfaults
             /\ sfiles' = s.files
             /\ slog' = s.log
    /\ SonarAdvance
    /\ UNCHANGED <<prog, snow, smonth, sfrom>>
    /\ UNCHANGED <<jiraVars, extractVars, effortVars, cumVars, plotVars>>

\* one step of the loop of fetch_and_save_project_data, func fetch_metrics_history
FetchAndSaveHistory ==
    /\ prog = "sonarqube_fetch" /\ spc = "loop" /\ sfunc = 2
    /\ \E failed \in SUBSET (1..NumMetrics) :
       \E kind \in Outcomes :
         LET func == QueryFuncs[sfunc]
             r == fetch_metrics_history(slog, sproj, failed)
             s == SaveOrLog(sfiles, r.log, sproj, func, r.data, r.truthy)
         IN  /\ sfaults + Cardinality(failed) <= MaxFaults
             /\ (kind = "ok") = (NumMetrics \notin failed)
             /\ squeried' = squeried \o
                    [m \in 1..NumMetrics |-> [project |-> sproj, func |-> func, metric |-> m]]
             /\ slast' = kind
             /\ sfaults' = sfaults + Cardinality(failed)
             /\ sfiles' = s.files
             /\ slog' = s.log
    /\ SonarAdvance
    /\ UNCHANGED <<prog, snow, smonth, sfrom>>
    /\ UNCHANGED <<jiraVars, extractVars, effortVars, cumVars, plotVars>>

(***************************************************************************)
(* sonarqube_plot.convert_effort_to_minutes                                *)
(***************************************************************************)
MaxLen == 4
Alphabet == {"h", "m", "i", "n", " ", "1", "2", "-"}
Digits == {"0", "1", "2", "3", "4", "5", "6", "7", "8", "9"}

DigitVal(c) ==
    CASE c = "0" -> 0 [] c = "1" -> 1 [] c = "2" -> 2 [] c = "3" -> 3 [] c = "4" -> 4
      [] c = "5" -> 5 [] c = "6" -> 6 [] c = "7" -> 7 [] c = "8" -> 8 [] OTHER -> 9

StartsWith(str, old) == Len(str) >= Len(old) /\ SubSeq(str, 1, Len(old)) = old

\* str.replace(old, new) for a non-empty old: the non-overlapping occurrences,
\* found from the left
RECURSIVE Replace(_, _, _)
Replace(str, old, new) ==
    IF str = <<>> THEN <<>>
    ELSE IF StartsWith(str, old)
    THEN new \o Replace(SubSeq(str, Len(old) + 1, Len(str)), old, new)
    ELSE <<Head(str)>> \o Replace(Tail(str), old, new)

\* str.split(): the maximal runs of non-whitespace characters
RECURSIVE SplitFrom(_, _, _)
SplitFrom(str, cur, parts) ==
    IF str = <<>> THEN (IF cur = <<>> THEN parts ELSE Append(parts, cur))
    ELSE IF Head(str) = " "
    THEN SplitFrom(Tail(str), <<>>, IF cur = <<>> THEN parts ELSE Append(parts, cur))
    ELSE SplitFrom(Tail(str), Append(cur, Head(str)), parts)

Split(str) == SplitFrom(str, <<>>, <<>>)

\* old in str
Contains(str, old) ==
    \E k \in 1..Len(str) : StartsWith(SubSeq(str, k, Len(str)), old)

RECURSIVE DigitsValue(_, _)
DigitsValue(str, acc) ==
    IF str = <<>> THEN acc
    ELSE IF Head(str) = "_" THEN DigitsValue(Tail(str), acc)
    ELSE DigitsValue(Tail(str), 10 * acc + DigitVal(Head(str)))

\* digits, with single underscores allowed between them
IsDigitString(str) ==
    /\ str # <<>>
    /\ \A k \in 1..Len(str) : str[k] \in Digits \cup {"_"}
    /\ str[1] \in Digits /\ str[Len(str)] \in Digits
    /\ \A k \in 1..(Len(str) - 1) : ~(str[k] = "_" /\ str[k + 1] = "_")

\* int(str): [ok, v]; ok is FALSE where int raises ValueError
PyInt(str) ==
    LET signed == str # <<>> /\ Head(str) \in {"-", "+"}
        body == IF signed THEN Tail(str) ELSE str
    IN  IF IsDigitString(body)
        THEN [ok |-> TRUE,
              v |-> IF signed /\ Head(str) = "-"
                    THEN 0 - DigitsValue(body, 0) ELSE DigitsValue(body, 0)]
        ELSE [ok |-> FALSE, v |-> 0]

\* line 38
NormalizeEffort(str) ==
    Replace(Replace(Replace(str, <<"h">>, <<"h", " ">>),
                    <<"m", "i", "n">>, <<" ", "m", "i", "n">>),
            <<" ", " ">>, <<" ">>)

\* what one part adds to total_minutes (lines 42-57)
PartMinutes(part) ==
    IF Contains(part, <<"h">>)
    THEN LET hours == PyInt(Replace(part, <<"h">>, <<>>))
         IN  IF hours.ok THEN hours.v * 60 ELSE 0
    ELSE IF Contains(part, <<"m", "i", "n">>)
    THEN LET mins == PyInt(Replace(part, <<"m", "i", "n">>, <<>>))
         IN  IF mins.ok THEN mins.v ELSE 0
    ELSE 0

RECURSIVE TotalMinutes(_)
TotalMinutes(parts) ==
    IF parts = <<>> THEN 0 ELSE PartMinutes(Head(parts)) + TotalMinutes(Tail(parts))

convert_effort_to_minutes(str) == TotalMinutes(Split(NormalizeEffort(str)))

\* ---- the strings the function is applied to
RECURSIVE StringsUpTo(_)
StringsUpTo(n) ==
    IF n = 0 THEN { <<>> }
    ELSE LET shorter == StringsUpTo(n - 1)
         IN  shorter \cup { Append(str, c) : str \in { x \in shorter : Len(x) = n - 1 },
                                             c \in Alphabet }

EffortExamples ==
    { <<"2", "h", " ", "1", "5", "m", "i", "n">>,
      <<"2", "h", "1", "5", "m", "i", "n">>,
      <<"1", "h", " ", "3", "0", "m", "i", "n">>,
      <<"3", "h">>,
      <<"9", "0", "m", "i", "n">>,
      <<"h", "a", "l", "f", "h">>,
      <<"g", "a", "r", "b", "a", "g", "e">>,
      <<"-", "5", "h">>,
      <<"+", "5", "h">>,
      <<"1", "_", "0", "h">>,
      <<"m", "i", "n", "5">>,
      <<"1", "d", " ", "2", "h">> }

EffortInputs == StringsUpTo(MaxLen) \cup EffortExamples

ConvertEffort ==
    /\ prog = "convert_effort_to_minutes" /\ minutes.status = "pending"
    /\ minutes' = [status |-> "returned", value |-> convert_effort_to_minutes(effort_str)]
    /\ UNCHANGED <<prog, effort_str>>
    /\ UNCHANGED <<jiraVars, sonarVars, extractVars, cumVars, plotVars>>

(***************************************************************************)
(* sonarqube_plot.plot_cumulative_effort_over_time, the body of its loop   *)
(* for one project                                                         *)
(***************************************************************************)
MaxCumIssues == 3

\* parse_date(entry, field): an aware datetime, ordered by its instant
parse_date(entry, field) == Instant(entry[field])

\* the issues kept by the two comprehensions of lines 123-124
RECURSIVE KeptIssues(_)
KeptIssues(iss) ==
    IF iss = <<>> THEN <<>>
    ELSE IF "creationDate" \in DOMAIN Head(iss) /\ "effort" \in DOMAIN Head(iss)
    THEN <<Head(iss)>> \o KeptIssues(Tail(iss))
    ELSE KeptIssues(Tail(iss))

Permutations1(n) == { f \in [1..n -> 1..n] : \A a, b \in 1..n : f[a] = f[b] => a = b }

\* np.argsort(dates) with the default kind, which is not a stable sort: any
\* order of the indices that sorts the dates
ArgsortOutcomes(dates) ==
    { f \in Permutations1(Len(dates)) :
        \A k \in 1..(Len(dates) - 1) : dates[f[k]] <= dates[f[k + 1]] }

\* np.cumsum
CumSum(values) == [k \in 1..Len(values) |-> SumSeq(SubSeq(values, 1, k))]

\* lines 123-128 for one order returned by np.argsort
CumulativeSeries(iss, order) ==
    LET kept == KeptIssues(iss)
        dates == [k \in 1..Len(kept) |-> parse_date(kept[k], "creationDate")]
        efforts == [k \in 1..Len(kept) |-> convert_effort_to_minutes(kept[k]["effort"])]
    IN  [status |-> "plotted",
         order |-> order,
         dates |-> [k \in 1..Len(kept) |-> dates[order[k]]],
         values |-> CumSum([k \in 1..Len(kept) |-> efforts[order[k]]])]

PlotCumulativeEffort ==
    /\ prog = "plot_cumulative_effort_over_time" /\ cumulative.status = "pending"
    /\ IF "issues" \notin DOMAIN issues_detailed
       THEN cumulative' = [cumulative EXCEPT !.status = "skipped"]
       ELSE LET kept == KeptIssues(issues_detailed["issues"])
                dates == [k \in 1..Len(kept) |-> parse_date(kept[k], "creationDate")]
            IN  \E order \in ArgsortOutcomes(dates) :
                    cumulative' = CumulativeSeries(issues_detailed["issues"], order)
    /\ UNCHANGED <<prog, issues_detailed>>
    /\ UNCHANGED <<jiraVars, sonarVars, extractVars, effortVars, plotVars>>

\* ---- the issue lists the loop body is applied to
CreationDateChoices ==
    { EmptyDict,
      [creationDate |-> Timestamp(2024, 1, 10, 10, 0)],
      [creationDate |-> Timestamp(2024, 1, 10, 11, 2)],
      [creationDate |-> Timestamp(2024, 1, 10, 12, 2)] }

EffortChoices ==
    { EmptyDict,
      [effort |-> <<"1", "h">>],
      [effort |-> <<"2", "h", "5", "m", "i", "n">>],
      [effort |-> <<"-", "2", "h">>] }

CumIssueChoices == { c @@ e : c \in CreationDateChoices, e \in EffortChoices }

CumIssueLists == UNION { [1..n -> CumIssueChoices] : n \in 0..MaxCumIssues }

IssuesDetailedInputs == { EmptyDict } \cup { [issues |-> iss] : iss \in CumIssueLists }

(***************************************************************************)
(* jira_plot.py: main, calculate_average_time and the plot functions       *)
(*                                                                         *)
(* A float is [k, v, den]: k is "num", "nan", "inf" or "-inf", and v / den *)
(* the value of a "num", kept exactly.  A mean is the pair of its sum and  *)
(* its count.                                                              *)
(***************************************************************************)
MaxRows == 2

Float(n) == [k |-> "num", v |-> n, den |-> 1]
NaN == [k |-> "nan", v |-> 0, den |-> 1]
PosInf == [k |-> "inf", v |-> 0, den |-> 1]
NegInf == [k |-> "-inf", v |-> 0, den |-> 1]
NaT == [y |-> 0, m |-> 0]

\* pd.to_numeric(errors='coerce') on one value of the JSON column
ToNumeric(raw) ==
    IF raw.t = "int" THEN Float(raw.v)
    ELSE IF raw.t = "str" /\ raw.s \in {"Infinity", "+Infinity", "inf", "+inf"} THEN PosInf
    ELSE IF raw.t = "str" /\ raw.s \in {"-Infinity", "-inf"} THEN NegInf
    ELSE NaN

\* x / 3600
DivideBy3600(x) == IF x.k = "num" THEN [x EXCEPT !.den = x.den * 3600] ELSE x

\* df.replace([np.inf, -np.inf], np.nan) on one float
ReplaceInf(x) == IF x.k \in {"inf", "-inf"} THEN NaN ELSE x

\* the denominator of a column: 1 for seconds, 3600 for hours
ColumnDen(column) == IF column = "time_spent_hours" THEN 3600 ELSE 1

\* pd.to_datetime(utc=True), tz_convert(None), dt.to_period('M').astype(str)
\* on one value: the month of the UTC date, or 'NaT'
MonthOf(raw) ==
    IF raw.t = "ts" THEN [y |-> UtcDate(raw).y, m |-> UtcDate(raw).m] ELSE NaT

\* lines 148-149 of main
CoerceRow(row) ==
    [ user_name |-> row.user_name,
      issue_key |-> row.issue_key,
      worklog_start |-> row.worklog_start,
      time_spent_seconds |-> ToNumeric(row.time_spent_seconds),
      time_spent_hours |-> DivideBy3600(ToNumeric(row.time_spent_seconds)) ]

\* lines 54-60 of calculate_average_time on one row (to_numeric leaves the
\* floats of line 148 as they are)
MonthAndReplaceRow(row) ==
    [ user_name |-> row.user_name,
      issue_key |-> row.issue_key,
      worklog_start |-> row.worklog_start,
      month |-> MonthOf(row.worklog_start),
      time_spent_seconds |-> ReplaceInf(row.time_spent_seconds),
      time_spent_hours |-> ReplaceInf(row.time_spent_hours) ]

\* df.dropna(subset=['time_spent_seconds'])
RECURSIVE DropNaSeconds(_)
DropNaSeconds(rows) ==
    IF rows = <<>> THEN <<>>
    ELSE IF Head(rows).time_spent_seconds.k = "nan" THEN DropNaSeconds(Tail(rows))
    ELSE <<Head(rows)>> \o DropNaSeconds(Tail(rows))

\* FilteredFrame with the missing durations kept as zero instead of dropped
FilteredFrameZeroFill(rows) ==
    [k \in 1..Len(rows) |->
        LET row == MonthAndReplaceRow(rows[k])
        IN  IF row.time_spent_seconds.k = "nan"
            THEN [row EXCEPT !.time_spent_seconds = Float(0),
                             !.time_spent_hours = DivideBy3600(Float(0))]
            ELSE row]

\* the frame calculate_average_time leaves in df (lines 54-61)
FilteredFrame(rows) ==
    DropNaSeconds([k \in 1..Len(rows) |-> MonthAndReplaceRow(rows[k])])

\* the values of `column` in the rows whose indices are in `idx`, summed;
\* NaN is skipped
RECURSIVE SumColumn(_, _, _)
SumColumn(rows, idx, column) ==
    IF idx = {} THEN 0
    ELSE LET k == CHOOSE x \in idx : TRUE
             val == rows[k][column]
         IN  (IF val.k = "num" THEN val.v ELSE 0) + SumColumn(rows, idx \ {k}, column)

CountColumn(rows, idx, column) == Cardinality({ k \in idx : rows[k][column].k = "num" })

\* groupby(['user_name', 'month'])[column] with sum and count: a group per
\* key met in the rows; rows whose user_name is null belong to no group
GroupByUserMonth(rows, column) ==
    LET keys == { <<rows[k].user_name, rows[k].month>> :
                    k \in { x \in 1..Len(rows) : rows[x].user_name # None } }
    IN  { LET idx == { k \in 1..Len(rows) :
                         rows[k].user_name = key[1] /\ rows[k].month = key[2] }
          IN  [ user_name |-> key[1], month |-> key[2],
                sum |-> SumColumn(rows, idx, column), den |-> ColumnDen(column),
                count |-> CountColumn(rows, idx, column) ] : key \in keys }

\* groupby('month')[column] with sum and count
GroupByMonth(rows, column) ==
    LET keys == { rows[k].month : k \in 1..Len(rows) }
    IN  { LET idx == { k \in 1..Len(rows) : rows[k].month = key }
          IN  [ user_name |-> None, month |-> key,
                sum |-> SumColumn(rows, idx, column), den |-> ColumnDen(column),
                count |-> CountColumn(rows, idx, column) ] : key \in keys }

\* groupby(['user_name', 'month'])['issue_key'].nunique(), in `count`
IssueCounts(rows) ==
    LET keys == { <<rows[k].user_name, rows[k].month>> :
                    k \in { x \in 1..Len(rows) : rows[x].user_name # None } }
    IN  { [ user_name |-> key[1], month |-> key[2], sum |-> 0, den |-> 1,
            count |-> Cardinality({ rows[k].issue_key :
                         k \in { x \in 1..Len(rows) :
                                   /\ rows[x].user_name = key[1]
                                   /\ rows[x].month = key[2]
                                   /\ rows[x].issue_key # None } }) ] : key \in keys }

\* calculate_average_time(df): line 62
calculate_average_time(rows) == GroupByUserMonth(FilteredFrame(rows), "time_spent_seconds")

\* the first lines of main (138-144): data is loaded, and no data ends the run
PlotMain ==
    /\ prog = "jira_plot" /\ ppc = "start"
    /\ ppc' = IF loaded = <<>> THEN "no_data" ELSE "coerce"
    /\ UNCHANGED <<prog, loaded, df, avg, charts>>
    /\ UNCHANGED <<jiraVars, sonarVars, extractVars, effortVars, cumVars>>

\* lines 146-154: the data is loaded again, the durations are coerced, and
\* an empty frame ends the run
CoerceDurations ==
    /\ prog = "jira_plot" /\ ppc = "coerce"
    /\ df' = [k \in 1..Len(loaded) |-> CoerceRow(loaded[k])]
    /\ ppc' = IF df' = <<>> THEN "empty" ELSE "calculate_average_time"
    /\ UNCHANGED <<prog, loaded, avg, charts>>
    /\ UNCHANGED <<jiraVars, sonarVars, extractVars, effortVars, cumVars>>

\* line 156: df is filtered in place and the means are returned
CalculateAverageTime ==
    /\ prog = "jira_plot" /\ ppc = "calculate_average_time"
    /\ df' = FilteredFrame(df)
    /\ avg' = calculate_average_time(df)
    /\ ppc' = "plot_avg_time_spent"
    /\ UNCHANGED <<prog, loaded, charts>>
    /\ UNCHANGED <<jiraVars, sonarVars, extractVars, effortVars, cumVars>>

\* A chart function is called with `given` rows and hands seaborn the frame
\* `table` (its argument, or the aggregate it computes from it).  On a frame
\* that is empty, seaborn either draws an empty chart or raises, depending on
\* its version; otherwise the chart is drawn and saved.
CallChart(pc, fn, given, table, next) ==
    /\ prog = "jira_plot" /\ ppc = pc
    /\ \E raises \in BOOLEAN :
         /\ raises => table = {}
         /\ charts' = Append(charts,
                [fn |-> fn, given |-> given, table |-> table, saved |-> ~raises])
         /\ ppc' = IF raises THEN "raised" ELSE next
    /\ UNCHANGED <<prog, loaded, df, avg>>
    /\ UNCHANGED <<jiraVars, sonarVars, extractVars, effortVars, cumVars>>

\* line 157
PlotAvgTimeSpent ==
    CallChart("plot_avg_time_spent", "plot_avg_time_spent",
              Cardinality(avg), avg, "plot_total_time_spent_per_tester")

\* line 158
PlotTotalTimeSpentPerTester ==
    CallChart("plot_total_time_spent_per_tester", "plot_total_time_spent_per_tester",
              Len(df), GroupByUserMonth(df, "time_spent_hours"),
              "plot_issues_per_tester_by_month")

\* line 159
PlotIssuesPerTesterByMonth ==
    CallChart("plot_issues_per_tester_by_month", "plot_issues_per_tester_by_month",
              Len(df), IssueCounts(df), "plot_avg_time_all_testers")

\* line 160
PlotAvgTimeAllTesters ==
    CallChart("plot_avg_time_all_testers", "plot_avg_time_all_testers",
              Len(df), GroupByMonth(df, "time_spent_seconds"),
              "plot_time_spent_distribution")

\* line 161: plot_time_spent_distribution returns at once on an empty frame
PlotTimeSpentDistribution ==
    /\ prog = "jira_plot" /\ ppc = "plot_time_spent_distribution"
    /\ charts' = IF df = <<>> THEN charts
                 ELSE Append(charts, [fn |-> "plot_time_spent_distribution",
                                      given |-> Len(df), table |-> {}, saved |-> TRUE])
    /\ ppc' = "done"
    /\ UNCHANGED <<prog, loaded, df, avg>>
    /\ UNCHANGED <<jiraVars, sonarVars, extractVars, effortVars, cumVars>>

\* ---- the records load_data is given
UserChoices == { Str("Alice Martin"), Str("Bob Keller"), None }
StartChoices == { Timestamp(2024, 1, 15, 9, 1), Timestamp(2024, 2, 10, 10, 1) }
DurationChoices == { Num(3600), Num(7200), Str("NaN"), Str("Infinity"), None }

RecordChoices ==
    { [ user_name |-> u, issue_key |-> Str("K"), worklog_start |-> w,
        time_spent_seconds |-> d ] :
        u \in UserChoices, w \in StartChoices, d \in DurationChoices }

\* records whose month depends on the UTC offset, or that have no month, or
\* whose duration is some other text
RecordExamples ==
    { << [ user_name |-> Str("Alice Martin"), issue_key |-> Str("K"),
           worklog_start |-> Timestamp(2024, 2, 1, 0, 1), time_spent_seconds |-> Num(3600) ],
         [ user_name |-> Str("Alice Martin"), issue_key |-> Str("L"),
           worklog_start |-> Timestamp(2024, 1, 31, 23, 0), time_spent_seconds |-> Num(7200) ],
         [ user_name |-> Str("Alice Martin"), issue_key |-> Str("L"),
           worklog_start |-> None, time_spent_seconds |-> Num(1800) ] >>,
       << [ user_name |-> Str("Bob Keller"), issue_key |-> Str("K"),
           worklog_start |-> Timestamp(2024, 1, 15, 9, 1), time_spent_seconds |-> Str("-Infinity") ],
         [ user_name |-> Str("Bob Keller"), issue_key |-> None,
           worklog_start |-> Timestamp(2024, 1, 15, 9, 1), time_spent_seconds |-> Str("1h") ] >> }

LoadedInputs == UNION { [1..n -> RecordChoices] : n \in 0..MaxRows } \cup RecordExamples

\* extract_relevant_info applied to the payload
ExtractRelevantInfo ==
    /\ prog = "extract_relevant_info" /\ extracted.status = "pending"
    /\ extracted' = extract_relevant_info(payload)
    /\ UNCHANGED <<prog, payload>>
    /\ UNCHANGED <<jiraVars, sonarVars, effortVars, cumVars, plotVars>>

(***************************************************************************)
(* Initial states and specifications                                       *)
(***************************************************************************)
JiraStart(pc, td, m) ==
    /\ today = td /\ months = m /\ jpc = pc /\ jentry = "none" /\ ji = 0 /\ jt = 0
    /\ jwindows = <<>> /\ jqueried = <<>> /\ jlast = "none" /\ jfaults = 0
    /\ jlog = {} /\ jfiles = {}

JiraOff(pc, td, m) ==
    /\ tracker = <<>>
    /\ JiraStart(pc, td, m)

SonarOff(pc, now, month) ==
    /\ spc = pc /\ snow = now /\ smonth = month /\ sfrom = <<0, 0, 0>>
    /\ sproj = 1 /\ sfunc = 1 /\ squeried = <<>> /\ slast = "none"
    /\ sfaults = 0 /\ slog = {} /\ sfiles = {}

ExtractOff(data) ==
    /\ payload = data /\ extracted = [status |-> "pending", records |-> <<>>]

EffortOff(str) ==
    /\ effort_str = str /\ minutes = [status |-> "pending", value |-> 0]

CumOff(data) ==
    /\ issues_detailed = data
    /\ cumulative = [status |-> "pending", order |-> <<>>, dates |-> <<>>, values |-> <<>>]

PlotOff(pc, data) ==
    /\ ppc = pc /\ loaded = data /\ df = <<>> /\ avg = {} /\ charts = <<>>

\* jira_fetch.py or sonarqube_fetch.py is started
InitFetch ==
    /\ \/ /\ prog = "jira_fetch"
          /\ \E td \in ValidTodays, m \in MonthsInputs : JiraOff("start", td, m)
          /\ SonarOff("off", Date(FirstYear, 1, 1), 0)
       \/ /\ prog = "sonarqube_fetch"
          /\ JiraOff("off", Date(FirstYear, 1, 1), 0)
          /\ \E now \in SonarNows, month \in SonarMonthInputs : SonarOff("start", now, month)
    /\ ExtractOff(EmptyDict) /\ EffortOff(<<>>) /\ CumOff(EmptyDict) /\ PlotOff("off", <<>>)

NextFetch ==
    \/ JiraMain
    \/ CallFetchDataForPeriod
    \/ NextWindow
    \/ FetchForTester
    \/ SonarLoad
    \/ SonarMain
    \/ FetchAndSaveSingle
    \/ FetchAndSaveHistory

SpecFetch == InitFetch /\ [][NextFetch]_vars

\* jira_fetch.py is run against a server that holds some issues
InitRun ==
    /\ prog = "jira_fetch"
    /\ \E td \in ValidTodays, m \in MonthsInputs :
         /\ JiraStart("start", td, m)
         /\ tracker \in Trackers(td)
    /\ SonarOff("off", Date(FirstYear, 1, 1), 0)
    /\ ExtractOff(EmptyDict) /\ EffortOff(<<>>) /\ CumOff(EmptyDict) /\ PlotOff("off", <<>>)

NextRun ==
    \/ JiraMain
    \/ NextWindow
    \/ FetchFromTracker

SpecRun == InitRun /\ [][NextRun]_vars

InitExtract ==
    /\ prog = "extract_relevant_info"
    /\ \E data \in Payloads : ExtractOff(data)
    /\ JiraOff("off", Date(FirstYear, 1, 1), 0) /\ SonarOff("off", Date(FirstYear, 1, 1), 0)
    /\ EffortOff(<<>>) /\ CumOff(EmptyDict) /\ PlotOff("off", <<>>)

SpecExtract == InitExtract /\ [][ExtractRelevantInfo]_vars

InitEffort ==
    /\ prog = "convert_effort_to_minutes"
    /\ \E str \in EffortInputs : EffortOff(str)
    /\ JiraOff("off", Date(FirstYear, 1, 1), 0) /\ SonarOff("off", Date(FirstYear, 1, 1), 0)
    /\ ExtractOff(EmptyDict) /\ CumOff(EmptyDict) /\ PlotOff("off", <<>>)

SpecEffort == InitEffort /\ [][ConvertEffort]_vars

InitCumulative ==
    /\ prog = "plot_cumulative_effort_over_time"
    /\ \E data \in IssuesDetailedInputs : CumOff(data)
    /\ JiraOff("off", Date(FirstYear, 1, 1), 0) /\ SonarOff("off", Date(FirstYear, 1, 1), 0)
    /\ ExtractOff(EmptyDict) /\ EffortOff(<<>>) /\ PlotOff("off", <<>>)

SpecCumulative == InitCumulative /\ [][PlotCumulativeEffort]_vars

InitPlot ==
    /\ prog = "jira_plot"
    /\ \E data \in LoadedInputs : PlotOff("start", data)
    /\ JiraOff("off", Date(FirstYear, 1, 1), 0) /\ SonarOff("off", Date(FirstYear, 1, 1), 0)
    /\ ExtractOff(EmptyDict) /\ EffortOff(<<>>) /\ CumOff(EmptyDict)

NextPlot ==
    \/ PlotMain
    \/ CoerceDurations
    \/ CalculateAverageTime
    \/ PlotAvgTimeSpent
    \/ PlotTotalTimeSpentPerTester
    \/ PlotIssuesPerTesterByMonth
    \/ PlotAvgTimeAllTesters
    \/ PlotTimeSpentDistribution

SpecPlot == InitPlot /\ [][NextPlot]_vars

(***************************************************************************)
(* The claims                                                              *)
(***************************************************************************)

\* the formatted date one day after a formatted date
DayAfter(s) == Strftime(NextDay(Date(s[1], s[2], s[3])))

\* C1: the windows of fetch_data_for_period number monthsBack + 1, are
\* ordered oldest first, do not overlap and are contiguous: the day after
\* the end of each window is the start of the next, and the last window ends
\* today.
C1_WindowsContiguous ==
    /\ \A k \in 1..(Len(jwindows) - 1) :
          /\ DateLess(jwindows[k].start, jwindows[k + 1].start)
          /\ DateLess(jwindows[k].end, jwindows[k + 1].start)
          /\ DayAfter(jwindows[k].end) = jwindows[k + 1].start
    /\ (jpc = "done" /\ months >= 0) =>
          /\ Len(jwindows) = months + 1
          /\ jwindows[Len(jwindows)].end = Strftime(today)

\* C2: a failed query of any kind does not abort the run: after a failure
\* the run is not aborted, and a finished run of either fetcher has issued
\* the request of every pair.
C2_FailedQueryDoesNotAbort ==
    /\ jlast \in Failures => jpc # "aborted"
    /\ (jpc = "done" /\ months >= 0) => Len(jqueried) = NumTesters * (months + 1)
    /\ slast \in Failures => spc # "aborted"
    /\ spc = "done" => Len(squeried) = NumProjects * (NumMetrics + 2)

\* the finite durations of the loaded records of one (user_name, month) group
FiniteOfGroup(user, month) ==
    { k \in 1..Len(loaded) :
        /\ loaded[k].user_name = user
        /\ MonthOf(loaded[k].worklog_start) = month
        /\ loaded[k].time_spent_seconds.t = "int" }

RECURSIVE SumLoaded(_)
SumLoaded(idx) ==
    IF idx = {} THEN 0
    ELSE LET k == CHOOSE x \in idx : TRUE
         IN  loaded[k].time_spent_seconds.v + SumLoaded(idx \ {k})

\* what the claim says a statistic table holds: a row for each group with a
\* finite duration, over the finite durations alone
ExpectedTable(den) ==
    { [ user_name |-> key[1], month |-> key[2],
        sum |-> SumLoaded(FiniteOfGroup(key[1], key[2])), den |-> den,
        count |-> Cardinality(FiniteOfGroup(key[1], key[2])) ] :
      key \in { x \in { <<loaded[k].user_name, MonthOf(loaded[k].worklog_start)>> :
                           k \in 1..Len(loaded) } :
                 x[1] # None /\ FiniteOfGroup(x[1], x[2]) # {} } }

MeansComputed ==
    ppc \in {"plot_avg_time_spent", "plot_total_time_spent_per_tester",
             "plot_issues_per_tester_by_month", "plot_avg_time_all_testers",
             "plot_time_spent_distribution", "done", "raised"}

TwoRecordsExample ==
    << [ user_name |-> Str("Alice Martin"), issue_key |-> Str("K"),
         worklog_start |-> Timestamp(2024, 1, 15, 9, 1), time_spent_seconds |-> Num(3600) ],
       [ user_name |-> Str("Alice Martin"), issue_key |-> Str("K"),
         worklog_start |-> Timestamp(2024, 1, 15, 9, 1), time_spent_seconds |-> Num(7200) ] >>

\* C3: in jira_plot.main the mean and the sum of each (user_name, month)
\* group are computed over exactly the records of the group whose duration
\* is a finite number; a "NaN", "Infinity", absent or non-numeric duration is
\* left out, not counted as zero.  The records (A, 2024-01, 3600) and
\* (A, 2024-01, 7200) give one row of mean 5400 seconds, 1.5 hours.
C3_MeanAndSumOverFiniteDurations ==
    /\ MeansComputed => avg = ExpectedTable(1)
    /\ \A k \in 1..Len(charts) :
          charts[k].fn = "plot_total_time_spent_per_tester" =>
              charts[k].table = ExpectedTable(3600)
    /\ (MeansComputed /\ loaded = TwoRecordsExample) =>
          /\ Cardinality(avg) = 1
          /\ \A row \in avg : row.sum = 5400 * row.count /\ 2 * row.sum = 3 * 3600 * row.count

\* C3 witness: the run has drawn the totals of a group that holds a finite
\* duration and an "Infinity" or "NaN" one, and the mean counts one record.
C3_Witness ==
    /\ ppc = "done"
    /\ \E a, b \in 1..Len(loaded) :
          /\ loaded[a].user_name = loaded[b].user_name
          /\ loaded[a].user_name # None
          /\ loaded[a].worklog_start = loaded[b].worklog_start
          /\ loaded[a].time_spent_seconds = Num(3600)
          /\ loaded[b].time_spent_seconds \in {Str("Infinity"), Str("NaN")}
    /\ \E row \in avg : row.count = 1 /\ row.sum = 3600
    /\ \E k \in 1..Len(charts) :
          charts[k].fn = "plot_total_time_spent_per_tester" /\ charts[k].saved

\* what the claim says one issue contributes: a record per work-log entry,
\* the last of them carrying the estimate fields of the issue
ExpectedIssueRecords(issue) ==
    LET worklogs == IssueWorklogs(issue)
        base == [j \in 1..Len(worklogs) |-> WorklogInfo(issue, worklogs[j])]
        timetracking == IssueTimetracking(issue)
    IN  IF DOMAIN timetracking # {} /\ Len(worklogs) > 0
        THEN [base EXCEPT ![Len(worklogs)] = DictUpdate(@, TimetrackingUpdate(timetracking))]
        ELSE base

RECURSIVE ExpectedRecords(_)
ExpectedRecords(iss) ==
    IF iss = <<>> THEN <<>>
    ELSE ExpectedIssueRecords(Head(iss)) \o ExpectedRecords(Tail(iss))

\* C4: extract_relevant_info emits one record per work-log entry, and the
\* estimate fields of an issue are written to the last record of that same
\* issue and to no other record; no record of another issue is modified,
\* also when an issue has a timetracking block and no work-log entry.
C4_EstimatesOnLastRecordOfSameIssue ==
    extracted.status = "returned" =>
        extracted.records = ExpectedRecords(Get(payload, "issues", <<>>))

\* the effort strings the claim is about: an integer and the hour marker,
\* an integer and the minute marker, or the two separated by a space
IsHourToken(str) ==
    /\ Len(str) >= 2 /\ str[Len(str)] = "h"
    /\ \A k \in 1..(Len(str) - 1) : str[k] \in Digits

IsMinuteToken(str) ==
    /\ Len(str) >= 4 /\ SubSeq(str, Len(str) - 2, Len(str)) = <<"m", "i", "n">>
    /\ \A k \in 1..(Len(str) - 3) : str[k] \in Digits

HourTokenValue(str) == DigitsValue(SubSeq(str, 1, Len(str) - 1), 0)
MinuteTokenValue(str) == DigitsValue(SubSeq(str, 1, Len(str) - 3), 0)

\* C5: an effort string made of an integer followed by the hour marker
\* and/or an integer followed by the minute marker converts to
\* 60 * hours + minutes: "2h 15min" to 135, "3h" to 180, "90min" to 90, and
\* "" to 0.
C5_SixtyTimesHoursPlusMinutes ==
    minutes.status = "returned" =>
        /\ effort_str = <<>> => minutes.value = 0
        /\ IsHourToken(effort_str) => minutes.value = 60 * HourTokenValue(effort_str)
        /\ IsMinuteToken(effort_str) => minutes.value = MinuteTokenValue(effort_str)
        /\ \A k \in 1..Len(effort_str) :
              ( /\ effort_str[k] = " "
                /\ IsHourToken(SubSeq(effort_str, 1, k - 1))
                /\ IsMinuteToken(SubSeq(effort_str, k + 1, Len(effort_str))) )
              => minutes.value =
                    60 * HourTokenValue(SubSeq(effort_str, 1, k - 1))
                    + MinuteTokenValue(SubSeq(effort_str, k + 1, Len(effort_str)))

\* C6: for every input string convert_effort_to_minutes returns an integer
\* >= 0, and a string none of whose space-separated tokens is an integer
\* followed by a unit gives zero.
C6_NeverNegativeNoPartialCredit ==
    minutes.status = "returned" =>
        /\ minutes.value >= 0
        /\ (\A k \in 1..Len(Split(effort_str)) :
               LET tok == Split(effort_str)[k]
               IN  ~IsHourToken(tok) /\ ~IsMinuteToken(tok)
                   /\ ~\E c \in 1..Len(tok) : IsHourToken(SubSeq(tok, 1, c))
                                                /\ IsMinuteToken(SubSeq(tok, c + 1, Len(tok))))
           => minutes.value = 0

NoDuplicates(seq) == \A a, b \in 1..Len(seq) : seq[a] = seq[b] => a = b

\* C7: nothing is persisted for a pair whose query failed, wholly or in
\* part, and no request is issued twice.
C7_NothingPersistedForFailedQuery ==
    /\ \A f \in jfiles : ~\E e \in jlog : e.tester = f.trigram /\ e.end = f.end
    /\ \A f \in sfiles : ~\E e \in slog : e.project = f.project /\ e.func = f.func
    /\ NoDuplicates(jqueried)
    /\ NoDuplicates(squeried)

RecordKeys ==
    {"user_name", "user_email", "issue_key", "issue_id", "worklog_id",
     "time_spent_seconds", "worklog_start"}

\* C8: extract_relevant_info never raises on a payload whose optional
\* fields are missing; it returns records that hold every field, the missing
\* ones as null.
C8_NeverRaisesOnMissingFields ==
    extracted.status # "pending" =>
        /\ extracted.status = "returned"
        /\ \A k \in 1..Len(extracted.records) :
              RecordKeys \subseteq DOMAIN extracted.records[k]

\* the order a stable chronological sort gives: by date, ties by position
StableOrder(dates, order) ==
    \A a, b \in 1..Len(order) :
        a < b => \/ dates[order[a]] < dates[order[b]]
                 \/ dates[order[a]] = dates[order[b]] /\ order[a] < order[b]

\* C9: the cumulative effort series is accumulated over the records sorted
\* chronologically by a stable sort, ties in original order; each value is
\* the running total up to its record, and the values never decrease.
C9_StableRunningTotalNonDecreasing ==
    cumulative.status = "plotted" =>
        LET kept == KeptIssues(issues_detailed["issues"])
            dates == [k \in 1..Len(kept) |-> parse_date(kept[k], "creationDate")]
        IN  /\ StableOrder(dates, cumulative.order)
            /\ \A k \in 1..(Len(cumulative.values) - 1) :
                  cumulative.values[k] <= cumulative.values[k + 1]

\* C10: when no record is left after coercion and filtering the aggregate
\* is empty and no chart function is called on it.
C10_NoChartOnEmptyAggregate ==
    /\ (MeansComputed /\ \A k \in 1..Len(loaded) : loaded[k].time_spent_seconds.t # "int")
          => avg = {}
    /\ \A k \in 1..Len(charts) : charts[k].given > 0

\* C11: a bad window count is fatal before any query.  Window generation
\* (fetch_data_for_period) given a count below zero fails instead of
\* returning; a run of the Jira fetcher started with --months below 1 and a
\* run of the SonarQube fetcher started with --month below 1 are rejected,
\* issue no request and write no file.
C11_BadWindowCountIsFatal ==
    /\ (prog = "jira_fetch" /\ jentry = "fetch_data_for_period" /\ months < 0)
          => jpc # "done"
    /\ (prog = "jira_fetch" /\ jentry = "main" /\ months < 1)
          => jpc = "rejected" /\ jqueried = <<>> /\ jfiles = {}
    /\ (prog = "sonarqube_fetch" /\ smonth < 1)
          => spc \in {"start", "main"} /\ squeried = <<>> /\ sfiles = {}

\* the work-log ids of the records of an artifact
WorklogIds(data) == { data[k].worklog_id : k \in 1..Len(data) }

\* a record's worklog_start lies inside the window [start, end]
StartedInside(record, start, end) ==
    LET d == <<record.worklog_start.y, record.worklog_start.m, record.worklog_start.d>>
    IN  ~DateLess(d, start) /\ ~DateLess(end, d)

\* C12: after a complete run of the Jira fetcher, no work-log id of a
\* tester is held by two artifact files, and every record of the artifact of
\* a (tester, window) pair has its worklog_start inside that window.
C12_WorklogInAtMostOneArtifact ==
    (prog = "jira_fetch" /\ jentry = "main" /\ jpc = "done") =>
        /\ \A f, g \in jfiles :
              (f # g /\ f.trigram = g.trigram)
                  => WorklogIds(f.data) \cap WorklogIds(g.data) = {}
        /\ \A f \in jfiles : \A k \in 1..Len(f.data) :
              \E i \in 1..Len(jwindows) :
                  /\ jwindows[i].end = f.end
                  /\ StartedInside(f.data[k], jwindows[i].start, jwindows[i].end)

====
